---- MODULE Spec2Model ----
(***************************************************************************)
(* A model of LDFrienT: the Picard (self-consistent) iteration engine of   *)
(* LdftModel, its boundary-aware roll, its checkpoint schedule and the     *)
(* bisection search of generator.py.                                       *)
(*                                                                         *)
(* Numbers.  A float is held exactly, as a pair <<n, d>>: a fraction n/d   *)
(* in lowest terms with d > 0, or one of the IEEE specials <<1, 0>> (+inf),*)
(* <<-1, 0>> (-inf), <<0, 0>> (NaN).  The operators below follow numpy's   *)
(* float arithmetic on these (division by zero gives inf or NaN, any       *)
(* operation on NaN gives NaN), not its rounding.                          *)
(*                                                                         *)
(* Logarithmic quantities.  mu, mu_ex and v_ext only ever enter the update *)
(* through np.exp and leave it through np.log, so each is held by its      *)
(* exponential (mu by exp(mu), ...): np.exp(a - b) is then a quotient and  *)
(* np.log(z) is z itself where the logarithm is defined, NaN where not.    *)
(***************************************************************************)
EXTENDS Integers, Sequences, FiniteSets, TLC

\* Python's None (an absent value, list or array)
None == <<>>

\* the element of a one-element set
Only(S) == CHOOSE x \in S : TRUE

\* floats: the fraction <<n, d>> in lowest terms, and inf, -inf and nan
NaN == <<0, 0>>
PInf == <<1, 0>>
NInf == <<-1, 0>>

Abs(n) == IF n < 0 THEN -n ELSE n
Sgn(n) == IF n < 0 THEN -1 ELSE IF n > 0 THEN 1 ELSE 0

RECURSIVE Gcd(_, _)
Gcd(a, b) == IF b = 0 THEN a ELSE Gcd(b, a % b)

\* the fraction n/d (d # 0) in lowest terms with a positive denominator
Q(n, d) ==
    LET g == Gcd(Abs(n), Abs(d))
    IN  <<(Sgn(d) * n) \div g, Abs(d) \div g>>

Zero == Q(0, 1)
One == Q(1, 1)

IsNaN(x) == x = NaN
IsInf(x) == x[2] = 0 /\ x[1] # 0
IsFin(x) == x[2] # 0

Neg(x) == <<-x[1], x[2]>>

Add(x, y) ==
    IF IsNaN(x) \/ IsNaN(y) THEN NaN
    ELSE IF IsInf(x) /\ IsInf(y) THEN (IF x = y THEN x ELSE NaN)
    ELSE IF IsInf(x) THEN x
    ELSE IF IsInf(y) THEN y
    ELSE LET g == Gcd(x[2], y[2])
             l == (x[2] \div g) * y[2]
         IN  Q(x[1] * (l \div x[2]) + y[1] * (l \div y[2]), l)

Sub_swapped(x, y) == Add(y, Neg(x))
Sub(x, y) == Add(x, Neg(y))

Mul(x, y) ==
    IF IsNaN(x) \/ IsNaN(y) THEN NaN
    ELSE IF IsInf(x) \/ IsInf(y)
         THEN (IF x[1] = 0 \/ y[1] = 0 THEN NaN
               ELSE <<Sgn(x[1]) * Sgn(y[1]), 0>>)
    ELSE LET g1 == Gcd(Abs(x[1]), y[2])
             g2 == Gcd(Abs(y[1]), x[2])
         IN  Q((x[1] \div g1) * (y[1] \div g2), (x[2] \div g2) * (y[2] \div g1))

\* numpy's true division: x/0 is +-inf (0/0 is NaN), x/inf is 0
Div(x, y) ==
    IF IsNaN(x) \/ IsNaN(y) THEN NaN
    ELSE IF IsInf(y) THEN (IF IsInf(x) THEN NaN ELSE Zero)
    ELSE IF y[1] = 0 THEN (IF x[1] = 0 THEN NaN ELSE <<Sgn(x[1]), 0>>)
    ELSE IF IsInf(x) THEN <<Sgn(x[1]) * Sgn(y[1]), 0>>
    ELSE Mul(x, Q(y[2], y[1]))

\* x < y; every comparison with NaN is false
Lt(x, y) ==
    IF IsNaN(x) \/ IsNaN(y) THEN FALSE
    ELSE IF IsInf(x) \/ IsInf(y)
         THEN (IF x = y THEN FALSE
               ELSE IF x = NInf \/ y = PInf THEN TRUE ELSE FALSE)
    ELSE x[1] * y[2] < y[1] * x[2]

\* np.log followed by np.exp, on a non-negative quantity held by its value:
\* log of a negative number is NaN, log(0) = -inf and exp(-inf) = 0
np_log(z) ==
    IF IsNaN(z) THEN NaN
    ELSE IF z[1] < 0 THEN NaN
    ELSE z

----------------------------------------------------------------------------
(* numpy arrays: the flat data in C order; the shape is carried alongside *)

\* an array, held as the tuple of its entries
Arr(a) == a \o <<>>

ArrScale(a, c) == Arr([k \in DOMAIN a |-> Mul(a[k], c)])
ArrAdd(a, b) == Arr([k \in DOMAIN a |-> Add(a[k], b[k])])
ArrSub(a, b) == Arr([k \in DOMAIN a |-> Sub(a[k], b[k])])
ArrSq(a) == Arr([k \in DOMAIN a |-> Mul(a[k], a[k])])
ArrAnyNaN(a) == \E k \in DOMAIN a : IsNaN(a[k])

RECURSIVE SumUpTo(_, _)
SumUpTo(a, n) == IF n = 0 THEN Zero ELSE Add(SumUpTo(a, n - 1), a[n])

np_sum(a) == SumUpTo(a, Len(a))
np_mean(a) == Div(np_sum(a), Q(Len(a), 1))

RECURSIVE Prod(_, _)
Prod(size, n) == IF n = 0 THEN 1 ELSE Prod(size, n - 1) * size[n]

\* reduce(lambda a, b: a*b, self._size)
Volume(size) == Prod(size, Len(size))

Last(seq) == seq[Len(seq)]

Max(a, b) == IF a >= b THEN a ELSE b
Min(a, b) == IF a <= b THEN a ELSE b

RECURSIVE MaxUpTo(_, _)
MaxUpTo(size, n) == IF n = 1 THEN size[1] ELSE Max(MaxUpTo(size, n - 1), size[n])

\* max(self._size)
MaxOf(size) == MaxUpTo(size, Len(size))

\* self._size.index(max(self._size)): the first axis of largest extent, 0-based
IndexOfMax(size) ==
    (CHOOSE k \in 1..Len(size) :
        /\ size[k] = MaxOf(size)
        /\ \A j \in 1..(k - 1) : size[j] # MaxOf(size)) - 1

----------------------------------------------------------------------------
(* The boundary-aware roll.  Every array is addressed as a 3-d array sh;   *)
(* a 2-d array of shape (a, b) is the 3-d array of shape (1, a, b) with the *)
(* same flat data, which is what _tilted_roll's np.array([array]) builds.  *)

Shape3(shape) == IF Len(shape) = 2 THEN <<1>> \o shape ELSE shape

\* the 0-based index triple of the flat position p (1-based), and back
Idx3(sh, p) ==
    <<(p - 1) \div (sh[2] * sh[3]), ((p - 1) \div sh[3]) % sh[2], (p - 1) % sh[3]>>
Flat3(sh, idx) == 1 + idx[1] * sh[2] * sh[3] + idx[2] * sh[3] + idx[3]

\* np.roll(array, steps, axis) on a 3-d array: out[.., k, ..] = in[.., (k - steps) mod N, ..]
np_roll3(sh, array, steps, axis) ==
    Arr([p \in DOMAIN array |->
        array[Flat3(sh, [Idx3(sh, p) EXCEPT ![axis + 1] = (@ - steps) % sh[axis + 1]])]])

\* np.roll on an array of the given 2-d or 3-d shape
np_roll(shape, array, steps, axis) ==
    np_roll3(Shape3(shape), array, steps, axis + (3 - Len(shape)))

\* the slice array[-steps:l] (steps > 0) or array[0:-steps] (else) along the roll axis,
\* with Python's clipping of slice bounds: the indices lo .. hi-1
SliceLo(l, steps) == IF steps > 0 THEN Max(l - steps, 0) ELSE 0
SliceHi_whole(l, steps) == l
SliceHi(l, steps) == IF steps > 0 THEN l ELSE Min(-steps, l)

\* the slice assignments of _tilted_roll_3d: the array whose slice along the
\* roll axis is rolled by shift along the shift axis
tilted_shear(sh, array, steps, roll_axis, shift, shift_axis) ==
    LET l == sh[roll_axis + 1]
        inSlice(idx) ==
            /\ roll_axis \in 0..2
            /\ SliceLo(l, steps) <= idx[roll_axis + 1]
            /\ idx[roll_axis + 1] < SliceHi(l, steps)
    IN  Arr([p \in DOMAIN array |->
            IF inSlice(Idx3(sh, p))
            THEN array[Flat3(sh, [Idx3(sh, p) EXCEPT
                     ![shift_axis + 1] = (@ - shift) % sh[shift_axis + 1]])]
            ELSE array[p]])

tilted_roll_3d(sh, array, steps, roll_axis, shift, shift_axis) ==
    np_roll3(sh, tilted_shear(sh, array, steps, roll_axis, shift, shift_axis),
             steps, roll_axis)

tilted_roll(shape, array, steps, roll_axis, shift, shift_axis) ==
    IF Len(shape) = 2
    THEN tilted_roll_3d(<<1>> \o shape, array, steps, roll_axis + 1, shift, shift_axis + 1)
    ELSE tilted_roll_3d(shape, array, steps, roll_axis, shift, shift_axis)

\* LdftModel._boundary_roll for a model of the given _size and _bound_cond
boundary_roll_tilted(size, bound_cond, r, steps, axis) ==
    IF bound_cond = "periodic" THEN np_roll(size, r, steps, axis)
    ELSE IF bound_cond \in {"111_if", "11_if", "110_if"}
    THEN IF IndexOfMax(size) = axis THEN np_roll(size, r, steps, axis)
         ELSE tilted_roll(size, r, steps, axis, MaxOf(size) \div 2, IndexOfMax(size))
    ELSE None
boundary_roll(size, bound_cond, r, steps, axis) ==
    IF bound_cond = "periodic" THEN np_roll(size, r, steps, axis)
    ELSE IF bound_cond \in {"111_if", "11_if"}
    THEN IF IndexOfMax(size) = axis THEN np_roll(size, r, steps, axis)
         ELSE tilted_roll(size, r, steps, axis, MaxOf(size) \div 2, IndexOfMax(size))
    ELSE IF bound_cond = "110_if"
    THEN IF IndexOfMax(size) = axis THEN np_roll(size, r, steps, axis)
         ELSE IF (IndexOfMax(size) + 1) % 3 = axis THEN np_roll(size, r, steps, axis)
         ELSE tilted_roll(size, r, steps, axis, MaxOf(size) \div 2, IndexOfMax(size))
    ELSE None

----------------------------------------------------------------------------
(* The roll on array objects.  A heap is the sequence of the numpy arrays  *)
(* allocated so far, each [shape, data]; a reference is an index into it.  *)
(* Each operator returns the heap it leaves and the reference it returns.  *)

\* np.copy(array): a new array of the same content
np_copy_alias(h, a) == [heap |-> h, ref |-> a]
np_copy(h, a) == [heap |-> Append(h, h[a]), ref |-> Len(h) + 1]

\* np.roll(array, steps, axis): a new array
np_roll_new(h, a, steps, axis) ==
    [heap |-> Append(h, [shape |-> h[a].shape,
                         data |-> np_roll(h[a].shape, h[a].data, steps, axis)]),
     ref |-> Len(h) + 1]

\* _tilted_roll_3d: the copy, the slice assignment into the copy, the roll
tilted_roll_3d_obj(h, a, steps, roll_axis, shift, shift_axis) ==
    LET c == np_copy(h, a)
        h1 == [c.heap EXCEPT ![c.ref].data =
                   tilted_shear(c.heap[c.ref].shape, @, steps, roll_axis, shift,
                                shift_axis)]
    IN  np_roll_new(h1, c.ref, steps, roll_axis)

\* _tilted_roll: a 2-d array is wrapped by np.array([array]) (a new array) and
\* the result is the view array[0, :, :] of the array _tilted_roll_3d returned
tilted_roll_obj(h, a, steps, roll_axis, shift, shift_axis) ==
    IF Len(h[a].shape) = 2
    THEN LET w == Append(h, [shape |-> <<1>> \o h[a].shape, data |-> h[a].data])
             t == tilted_roll_3d_obj(w, Len(w), steps, roll_axis + 1, shift,
                                     shift_axis + 1)
         IN  [heap |-> [t.heap EXCEPT ![t.ref].shape = Tail(@)], ref |-> t.ref]
    ELSE tilted_roll_3d_obj(h, a, steps, roll_axis, shift, shift_axis)

\* LdftModel._boundary_roll on the array object r
boundary_roll_obj(h, size, bound_cond, r, steps, axis) ==
    IF bound_cond = "periodic" THEN np_roll_new(h, r, steps, axis)
    ELSE IF bound_cond \in {"111_if", "11_if"}
    THEN IF IndexOfMax(size) = axis THEN np_roll_new(h, r, steps, axis)
         ELSE tilted_roll_obj(h, r, steps, axis, MaxOf(size) \div 2, IndexOfMax(size))
    ELSE IF bound_cond = "110_if"
    THEN IF IndexOfMax(size) = axis THEN np_roll_new(h, r, steps, axis)
         ELSE IF (IndexOfMax(size) + 1) % 3 = axis THEN np_roll_new(h, r, steps, axis)
         ELSE tilted_roll_obj(h, r, steps, axis, MaxOf(size) \div 2, IndexOfMax(size))
    ELSE [heap |-> h, ref |-> 0]

----------------------------------------------------------------------------
(* LdftModel: one system is a record of its instance variables.            *)

\* LdftModel.set_r
set_r_keep(s, r) == [s EXCEPT !.r = r, !.r_hist = Append(@, r)]
set_r(s, r) ==
    [s EXCEPT !.r = r, !.it_counter = 0, !.r_hist = <<r>>, !.it_hist = <<0>>,
              !.err_hist = <<>>]

\* LdftModel.set_hist
set_hist(s, r_hist, it_hist, err_hist) ==
    [s EXCEPT !.it_hist = it_hist, !.r_hist = r_hist, !.err_hist = err_hist,
              !.r = Last(r_hist)]

\* LdftModel._append_hist
append_hist(s) ==
    [s EXCEPT !.r_hist = Append(@, s.r), !.it_hist = Append(@, s.it_counter)]

\* LdftModel.__init__ (it_hist, when given, is a non-empty list); epsi is the
\* attribute the subclass sets before it calls this constructor
LdftModel_init(size, epsi, mu_fix, mu, dens, v_ext, r, r_hist, err_hist, it_hist, bound_cond) ==
    LET s0 == [size |-> size, dim |-> Len(size), bound_cond |-> bound_cond,
               epsi |-> epsi,
               it_hist |-> IF it_hist = None THEN <<>> ELSE it_hist,
               r_hist |-> IF r_hist = None THEN <<>> ELSE r_hist,
               it_counter |-> IF it_hist = None THEN 0 ELSE Last(it_hist),
               r |-> None, err_hist |-> <<>>,
               mu |-> None, dens |-> None, mu_fix |-> mu_fix, v_ext |-> None]
        s1 == IF s0.r_hist # <<>> THEN [s0 EXCEPT !.r = Last(s0.r_hist)]
              ELSE IF r = None THEN s0
              ELSE set_r(s0, r)
    IN  [s1 EXCEPT
            !.err_hist = IF err_hist = None THEN <<>> ELSE err_hist,
            !.mu = IF mu # None THEN mu ELSE [i \in DOMAIN mu_fix |-> None],
            !.dens = IF dens # None THEN dens ELSE [i \in DOMAIN mu_fix |-> None],
            !.v_ext = IF v_ext # None THEN v_ext
                      ELSE Arr([i \in DOMAIN mu_fix |->
                                   Arr([k \in 1..Volume(size) |-> One])])]

\* type(x)==type(np.array([])): whether x is a numpy array.  A Python list is
\* handed to a constructor as <<"list", its items>>.
is_ndarray(x) == x # None /\ x[1] # "list"

\* LG3dMf.__init__: the single species' parameters are wrapped into lists; an
\* r that is no numpy array is replaced by None
LG3dMf_init(size, epsi, mu_fix, mu, dens, v_ext, bound_cond, r, r_hist, err_hist, it_hist) ==
    LdftModel_init(size, epsi, <<mu_fix>>,
                   IF mu # None THEN <<mu>> ELSE None,
                   IF dens # None THEN <<dens>> ELSE None,
                   IF v_ext # None THEN <<v_ext>> ELSE None,
                   IF is_ndarray(r) THEN <<r>> ELSE None,
                   r_hist, err_hist, it_hist, bound_cond)

\* LG3dMf.cal_mu_ex, by its exponential: exp(log(1 - r) + epsi*(r1 + ... + r6)).
\* The model holds systems of epsi = 0 only, where the neighbour term is 0 for
\* finite neighbours and NaN (0*inf, 0*NaN) otherwise.  The function is taken
\* as it is written: its decorator _RespectBoundaryCondition is defined in
\* none of the sources.
cal_mu_ex(s) ==
    LET r == s.r[1]
        roll(steps, axis) == boundary_roll(s.size, s.bound_cond, r, steps, axis)
        nn == ArrAdd(ArrAdd(ArrAdd(roll(-1, 1), roll(1, 1)),
                            ArrAdd(roll(-1, 0), roll(1, 0))),
                     ArrAdd(roll(-1, 2), roll(1, 2)))
    IN  <<Arr([k \in DOMAIN r |->
            IF IsFin(Mul(Q(s.epsi, 1), nn[k])) THEN np_log(Sub(One, r[k])) ELSE NaN])>>

\* LdftModel.cal_mu_ex, the abstract method: an LG3dMf computes it; a system
\* of another subclass carries what its functional returns, update by update
LdftModel_cal_mu_ex(s) ==
    IF "functional" \in DOMAIN s
    THEN s.functional[(s.it_counter % Len(s.functional)) + 1]
    ELSE cal_mu_ex(s)

\* the loop over the species in _make_picard_update: what it has done to the
\* system when it ends ("ok"), returns early on a NaN ("None": the bare return
\* after print('divergent!!!')) or raises on a missing mu or dens ("TypeError")
RECURSIVE picard_species(_, _, _, _)
picard_species(s, temp, i, r_new) ==
    IF i > Len(temp) THEN [sys |-> s, r_new |-> r_new, ret |-> "ok"]
    ELSE IF ArrAnyNaN(temp[i]) THEN [sys |-> s, r_new |-> r_new, ret |-> "None"]
    ELSE IF s.mu_fix[i]
    THEN IF s.mu[i] = None THEN [sys |-> s, r_new |-> r_new, ret |-> "TypeError"]
         ELSE LET r == ArrScale(temp[i], s.mu[i])
              IN  picard_species([s EXCEPT !.dens[i] = np_mean(r)], temp, i + 1,
                                 Append(r_new, r))
    ELSE IF s.dens[i] = None THEN [sys |-> s, r_new |-> r_new, ret |-> "TypeError"]
         ELSE LET temp_dens == Div(np_sum(temp[i]), Q(Volume(s.size), 1))
                  z == Div(s.dens[i], temp_dens)
              IN  picard_species([s EXCEPT !.mu[i] = np_log(z)], temp, i + 1,
                                 Append(r_new, ArrScale(temp[i], z)))

\* the end of _make_picard_update, after the loop over the species
picard_finish_unmixed(s, alpha, res) ==
    LET error == Arr([i \in DOMAIN res.r_new |->
                    np_sum(ArrSq(ArrSub(res.r_new[i], s.r[i])))])
    IN  IF res.ret # "ok"
        THEN [sys |-> res.sys, ret |-> res.ret, r |-> None, error |-> None]
        ELSE [sys |-> [res.sys EXCEPT !.r = res.r_new, !.it_counter = @ + 1],
              ret |-> "ok", r |-> res.r_new, error |-> error]
picard_finish(s, alpha, res) ==
    LET error == Arr([i \in DOMAIN res.r_new |->
                    np_sum(ArrSq(ArrSub(res.r_new[i], s.r[i])))])
        r == Arr([i \in DOMAIN res.r_new |->
                ArrAdd(ArrScale(res.r_new[i], alpha),
                       ArrScale(s.r[i], Sub(One, alpha)))])
    IN  IF res.ret # "ok"
        THEN [sys |-> res.sys, ret |-> res.ret, r |-> None, error |-> None]
        ELSE [sys |-> [res.sys EXCEPT !.r = r, !.it_counter = @ + 1],
              ret |-> "ok", r |-> r, error |-> error]

\* LdftModel._make_picard_update, given what cal_mu_ex returned
make_picard_update_logged(s, alpha, mu_ex) ==
    LET temp == Arr([i \in DOMAIN s.mu_fix |->
                    Arr([k \in DOMAIN mu_ex[i] |-> Div(mu_ex[i][k], s.v_ext[i][k])])])
        res == picard_species(s, temp, 1, <<>>)
    IN  picard_finish(s, alpha, [res EXCEPT !.sys.err_hist = Append(@, <<>>)])
make_picard_update(s, alpha, mu_ex) ==
    LET temp == Arr([i \in DOMAIN s.mu_fix |->
                    Arr([k \in DOMAIN mu_ex[i] |-> Div(mu_ex[i][k], s.v_ext[i][k])])])
    IN  Only({picard_finish(s, alpha, res) : res \in {picard_species(s, temp, 1, <<>>)}})

----------------------------------------------------------------------------
(* The checkpoint schedule.  A checkp_method is [int |-> k] for a Python   *)
(* int and [str |-> <<"d", "e", "c", "2">>] for a Python str.              *)

RECURSIVE Pow(_, _)
Pow(b, n) == IF n = 0 THEN 1 ELSE b * Pow(b, n - 1)

\* int(np.floor(np.log10(h))) for h >= 1
RECURSIVE FloorLog10(_)
FloorLog10(h) == IF h < 10 THEN 0 ELSE 1 + FloorLog10(h \div 10)

DigitOf(c) == CHOOSE d \in 0..9 : <<"0", "1", "2", "3", "4", "5", "6", "7", "8", "9">>[d + 1] = c
IsDigit(c) == c \in {"0", "1", "2", "3", "4", "5", "6", "7", "8", "9"}

RECURSIVE DigitsValue(_, _)
DigitsValue(str, n) == IF n = 0 THEN 0 ELSE 10 * DigitsValue(str, n - 1) + DigitOf(str[n])

\* float(str) for the strings of the model, which are made of digits, points
\* and letters: a decimal numeral (digits with at most one point) is parsed to
\* its value, any other string (the empty one, one with a letter) raises
\* ValueError
IsFloatLiteral(str) ==
    /\ \A k \in DOMAIN str : IsDigit(str[k]) \/ str[k] = "."
    /\ Cardinality({k \in DOMAIN str : str[k] = "."}) <= 1
    /\ \E k \in DOMAIN str : IsDigit(str[k])
float(str) ==
    LET digits == SelectSeq(str, IsDigit)
        point == {k \in DOMAIN str : str[k] = "."}
        decimals == IF point = {} THEN 0 ELSE Len(str) - Only(point)
    IN  Q(DigitsValue(digits, Len(digits)), Pow(10, decimals))

\* int(h ** parm) for an int h >= 0 and a float parm = n/d >= 0: the largest c
\* with c**d <= h**n
int_pow(h, parm) ==
    CHOOSE c \in 0..Max(Pow(h, parm[1]), 1) :
        Pow(c, parm[2]) <= Pow(h, parm[1]) /\ Pow(h, parm[1]) < Pow(c + 1, parm[2])

\* LdftModel._set_new_checkp: [ok |-> TRUE, checkp |-> the next checkpoint] or
\* [ok |-> FALSE, err |-> the exception raised]
set_new_checkp_every(s, checkp_method) ==
    [ok |-> TRUE, checkp |-> Q(s.it_counter + 1, 1)]
set_new_checkp(s, checkp_method) ==
    IF "int" \in DOMAIN checkp_method
    THEN IF s.it_hist = <<>> THEN [ok |-> FALSE, err |-> "IndexError"]
         ELSE [ok |-> TRUE, checkp |-> Q(Last(s.it_hist) + checkp_method.int, 1)]
    ELSE LET str == checkp_method.str
             method == SubSeq(str, 1, Min(3, Len(str)))
             rest == SubSeq(str, 4, Len(str))
         IN  IF ~IsFloatLiteral(rest) THEN [ok |-> FALSE, err |-> "ValueError"]
             ELSE IF method = <<"e", "x", "p">>
             THEN IF s.it_hist = <<>> THEN [ok |-> FALSE, err |-> "IndexError"]
                  ELSE LET checkp == int_pow(Last(s.it_hist), float(rest))
                       IN  [ok |-> TRUE,
                            checkp |-> Q(IF checkp = Last(s.it_hist) THEN checkp + 1
                                         ELSE checkp, 1)]
             ELSE IF method = <<"d", "e", "c">>
             THEN IF s.it_hist = <<>> THEN [ok |-> FALSE, err |-> "IndexError"]
                  ELSE LET exp == IF Last(s.it_hist) # 0 THEN FloorLog10(Last(s.it_hist))
                                  ELSE 1
                           steps == Mul(float(rest), Q(Pow(10, exp), 1))
                       IN  [ok |-> TRUE, checkp |-> Add(Q(Last(s.it_hist), 1), steps)]
             ELSE [ok |-> FALSE, err |-> "UnboundLocalError"]

\* all(np.array(error) < min_err); a min_err <<k>> stands for 10**k with k so
\* negative that no positive fraction of the model lies below it
ErrBelow(e, min_err) ==
    IF Len(min_err) = 1 THEN Lt(e, Zero) \/ e = Zero ELSE Lt(e, min_err)

AllBelow(error, min_err) == \A i \in DOMAIN error : ErrBelow(error[i], min_err)

\* one pass of the loop of make_picard_iteration, given what the update
\* returned.  The loop is held by the system, the pending checkpoint (the
\* local checkp) and where control is: "running", "break", or the exception
\* that left the call.
picard_update_done_sparse(L, u, checkp_method, min_err) ==
    LET hit == Q(u.sys.it_counter, 1) = L.checkp
        s1 == IF hit THEN [u.sys EXCEPT !.err_hist = Append(@, u.error)] ELSE u.sys
        s2 == IF hit THEN append_hist(s1) ELSE s1
        next == IF hit THEN set_new_checkp(s2, checkp_method)
                ELSE [ok |-> TRUE, checkp |-> L.checkp]
    IN  IF u.ret # "ok" THEN [sys |-> u.sys, checkp |-> L.checkp, status |-> "TypeError"]
        ELSE IF ~next.ok THEN [sys |-> s2, checkp |-> L.checkp, status |-> next.err]
        ELSE [sys |-> s2, checkp |-> next.checkp,
              status |-> IF min_err # None /\ AllBelow(u.error, min_err)
                         THEN "break" ELSE "running"]
picard_update_done(L, u, checkp_method, min_err) ==
    LET s1 == [u.sys EXCEPT !.err_hist = Append(@, u.error)]
        hit == Q(s1.it_counter, 1) = L.checkp
        s2 == IF hit THEN append_hist(s1) ELSE s1
        next == IF hit THEN set_new_checkp(s2, checkp_method)
                ELSE [ok |-> TRUE, checkp |-> L.checkp]
    IN  IF u.ret # "ok" THEN [sys |-> u.sys, checkp |-> L.checkp, status |-> "TypeError"]
        ELSE IF ~next.ok THEN [sys |-> s2, checkp |-> L.checkp, status |-> next.err]
        ELSE [sys |-> s2, checkp |-> next.checkp,
              status |-> IF min_err # None /\ AllBelow(u.error, min_err)
                         THEN "break" ELSE "running"]

\* one pass of the loop; a loop that was left makes no further pass
picard_pass(L, alpha, checkp_method, min_err) ==
    IF L.status # "running" THEN L
    ELSE IF L.sys.r = None THEN [L EXCEPT !.status = "TypeError"]
    ELSE Only({picard_update_done(L, u, checkp_method, min_err) :
                   u \in {make_picard_update(L.sys, alpha, LdftModel_cal_mu_ex(L.sys))}})

\* n passes of the loop, as the first n \div 2 followed by the others
RECURSIVE picard_passes(_, _, _, _, _)
picard_passes_once(L, n, alpha, checkp_method, min_err) ==
    IF n = 0 THEN L ELSE picard_pass(L, alpha, checkp_method, min_err)
picard_passes(L, n, alpha, checkp_method, min_err) ==
    IF n = 0 THEN L
    ELSE IF n = 1 THEN picard_pass(L, alpha, checkp_method, min_err)
    ELSE Only({picard_passes(M, n - n \div 2, alpha, checkp_method, min_err) :
                   M \in {picard_passes(L, n \div 2, alpha, checkp_method, min_err)}})

\* the end of make_picard_iteration: the terminal snapshot
picard_exit(L) ==
    [sys |-> IF L.sys.it_counter # Last(L.sys.it_hist) THEN append_hist(L.sys)
             ELSE L.sys,
     checkp |-> L.checkp, status |-> "returned"]

\* LdftModel.make_picard_iteration: the system it leaves, the checkpoint that
\* was pending when it ended, and how it ended ("returned", or the exception
\* that left it)
make_picard_iteration(s, alpha, it_steps, checkp_method, min_err) ==
    LET first == set_new_checkp(s, checkp_method)
        L == picard_passes([sys |-> s, checkp |-> first.checkp, status |-> "running"],
                           it_steps, alpha, checkp_method, min_err)
    IN  IF ~first.ok THEN [sys |-> s, checkp |-> None, status |-> first.err]
        ELSE IF L.status \in {"running", "break"} THEN picard_exit(L)
        ELSE L

----------------------------------------------------------------------------
(* Initial density profiles *)

\* LdftModel.return_hom_densProfile
return_hom_densProfile(s, dens) == Arr([k \in 1..Volume(s.size) |-> dens])

\* LdftModel.return_nuc_densProfile, for a nucleus no larger than the system
\* (and, in 3-d, a first axis no longer than the second, as the layers of the
\* shear are counted by the first and taken along the second)
return_nuc_densProfile_unscaled(s, dens, shape) ==
    LET sh == Shape3(s.size)
        off == 3 - s.dim
        nuc_dens == IF Lt(dens, Q(1, 2)) THEN Add(dens, Q(1, 20)) ELSE Sub(dens, Q(1, 20))
        inNuc(idx) ==
            \A a \in 1..s.dim :
                /\ (s.size[a] - shape[a]) \div 2 <= idx[a + off]
                /\ idx[a + off] < (s.size[a] + shape[a]) \div 2
    IN  Arr([p \in 1..Volume(s.size) |-> IF inNuc(Idx3(sh, p)) THEN nuc_dens ELSE dens])
return_nuc_densProfile(s, dens, shape) ==
    LET sh == Shape3(s.size)
        off == 3 - s.dim
        nuc_dens == IF Lt(dens, Q(1, 2)) THEN Add(dens, Q(1, 20)) ELSE Sub(dens, Q(1, 20))
        inNuc(idx) ==
            \A a \in 1..s.dim :
                /\ (s.size[a] - shape[a]) \div 2 <= idx[a + off]
                /\ idx[a + off] < (s.size[a] + shape[a]) \div 2
        block == Arr([p \in 1..Volume(s.size) |->
                    IF inNuc(Idx3(sh, p)) THEN nuc_dens ELSE dens])
        \* profile[.., i, ..] = np.roll(profile[.., i, ..], sheer - i) along the last
        \* axis, for the layers i < sheer of the given axis
        sheared(prof, layer_axis) ==
            Arr([p \in DOMAIN prof |->
                LET idx == Idx3(sh, p)
                IN  IF idx[layer_axis + 1] < s.size[1]
                    THEN prof[Flat3(sh, [idx EXCEPT
                             ![3] = (@ - (s.size[1] - idx[layer_axis + 1])) % sh[3]])]
                    ELSE prof[p]])
        profile ==
            IF s.dim = 2
            THEN IF s.bound_cond = "11_if" THEN sheared(block, 1) ELSE block
            ELSE LET p1 == IF s.bound_cond \in {"111_if", "110_if"}
                           THEN sheared(block, 1) ELSE block
                 IN  IF s.bound_cond = "111_if" THEN sheared(p1, 0) ELSE p1
    IN  ArrScale(profile, Div(dens, np_mean(profile)))

\* LdftModel.create_init_profile
create_init_profile(s, dens, shape) ==
    set_r(s, Arr([i \in DOMAIN s.mu_fix |->
                    return_nuc_densProfile(s, dens[i], shape[i])]))

----------------------------------------------------------------------------
(* generator.py, for Model = LG3dMf *)

\* create_sys: init is [str |-> name] or [sys |-> a system], whose profile
\* init.r (the list of the species' arrays) is handed to the constructor
create_sys(size, epsi, dens, init) ==
    IF "str" \in DOMAIN init
    THEN LET nucLen == Max(size[1] \div 20, 1)
             nuc == IF init.str = "hom" THEN [a \in DOMAIN size |-> 0]
                    ELSE IF init.str = "sph" THEN [a \in DOMAIN size |-> nucLen]
                    ELSE IF init.str = "cyl"
                    THEN [a \in DOMAIN size |-> IF a = 1 THEN size[1] ELSE nucLen]
                    ELSE [a \in DOMAIN size |-> IF a = Len(size) THEN nucLen ELSE size[a]]
             syst == LG3dMf_init(size, epsi, FALSE, None, dens, None, "periodic",
                                 None, None, None, None)
         IN  IF init.str \notin {"hom", "sph", "cyl", "sl"}
             THEN [status |-> "UnboundLocalError"]
             ELSE [status |-> "returned",
                   sys |-> create_init_profile(syst, <<dens>>, <<nuc>>)]
    ELSE [status |-> "returned",
          sys |-> LG3dMf_init(size, epsi, FALSE, None, dens, None, "periodic",
                              <<"list", init.sys.r>>, None, None, None)]

\* whether a picard run left its call by an exception
probe_swallowed(run) == FALSE
probe_raised(run) == run.status # "returned"

\* the values LG3dMf.cal_F can take on a system: the sum of r*(log(r) - 1) and
\* r + (1 - r)*log(1 - r) is nan when an entry of the profile is outside (0, 1),
\* and otherwise a finite number that the model leaves open
FVals == {Zero, Q(1, 2000), Q(1, 1000)}
cal_F(s) ==
    IF "functional" \in DOMAIN s THEN FVals
    ELSE IF \A k \in DOMAIN s.r[1] : Lt(Zero, s.r[1][k]) /\ Lt(s.r[1][k], One)
    THEN FVals ELSE {NaN}

\* the loops of cal_Om (grand: every species) and cal_semi_Om (the species of
\* mu_fix true) from species i on.  A potential x - mu[i]*np.sum(r[i]), mu[i]
\* held by its exponential z, is kept as the triple <<x, z, np.sum(r[i])>>: the
\* logarithm of a fraction is no fraction.  A species that is skipped
\* subtracts 0 and leaves x; a mu of None raises TypeError.
RECURSIVE potential_loop(_, _, _, _)
potential_loop(s, i, x, grand) ==
    IF i > Len(s.mu_fix) THEN x
    ELSE IF ~(grand \/ s.mu_fix[i]) THEN potential_loop(s, i + 1, x, grand)
    ELSE IF s.mu[i] = None THEN <<"TypeError">>
    ELSE potential_loop(s, i + 1, <<x, s.mu[i], np_sum(s.r[i])>>, grand)

\* LdftModel.cal_Om, when cal_F returns F
cal_Om_of(s, F) == potential_loop(s, 1, F, TRUE)

\* LdftModel.cal_semi_Om, when cal_F returns F
cal_semi_Om_grand(s, F) == potential_loop(s, 1, F, TRUE)
cal_semi_Om_of(s, F) == potential_loop(s, 1, F, FALSE)

\* LdftModel.cal_semi_Om: the values it can return
cal_semi_Om(s) == {cal_semi_Om_of(s, F) : F \in cal_F(s)}

\* abs() of a float
abs_signed(x) == x
abs(x) == IF x[1] < 0 THEN Neg(x) ELSE x

\* the density of the probes of a round: dens = (densRange[1]+densRange[0])/2
mid_dens_low(densRange) == densRange[1]
mid_dens_third(densRange) ==
    Div(Add(Add(densRange[1], densRange[1]), densRange[2]), Q(3, 1))
mid_dens(densRange) == Div(Add(densRange[2], densRange[1]), Q(2, 1))

\* search_trans up to the comparison of the free energies: the two probes of
\* the round, or "finish" (the interval is narrow enough), or "raised" (a
\* picard run raised; what follows it in the round is not executed)
search_probes(a) ==
    LET dens == mid_dens(a.densRange)
        left == make_picard_iteration(
                    create_sys(a.size, a.epsi, dens, a.initLeft).sys,
                    a.alpha, a.it_step, a.chp, <<-20>>)
        right == make_picard_iteration(
                    create_sys(a.size, a.epsi, dens, a.initRight).sys,
                    a.alpha, a.it_step, a.chp, <<-20>>)
    IN  IF ~Lt(a.acuracy, Sub(a.densRange[2], a.densRange[1]))
        THEN [status |-> "finish"]
        ELSE IF probe_raised(left)
        THEN [status |-> "raised", dens |-> dens, left |-> left, right |-> None]
        ELSE IF probe_raised(right)
        THEN [status |-> "raised", dens |-> dens, left |-> left, right |-> right]
        ELSE [status |-> "probed", dens |-> dens, left |-> left, right |-> right]

\* search_trans from the comparison on, given the probes p of the round and
\* their free energies: the file saved (system, density and spec of its name),
\* and the arguments of the recursive call or the end of the search
search_compare_left_first(a, p, leftF, rightF) ==
    IF Lt(leftF, rightF)
    THEN [pc |-> "call",
          args |-> [a EXCEPT !.densRange = <<p.dens, a.densRange[2]>>,
                             !.initLeft = [sys |-> p.left.sys]],
          saved |-> [sys |-> p.left.sys, dens |-> p.dens, spec |-> "left"]]
    ELSE IF Lt(IF Sub(leftF, rightF)[1] < 0 THEN Neg(Sub(leftF, rightF))
               ELSE Sub(leftF, rightF), Q(1, 1000))
    THEN [pc |-> "noTrans", args |-> a,
          saved |-> [sys |-> p.left.sys, dens |-> p.dens, spec |-> "noTrans"]]
    ELSE [pc |-> "call",
          args |-> [a EXCEPT !.densRange = <<a.densRange[1], p.dens>>,
                             !.initRight = [sys |-> p.right.sys]],
          saved |-> [sys |-> p.right.sys, dens |-> p.dens, spec |-> "right"]]
search_compare(a, p, leftF, rightF) ==
    IF Lt(abs(Sub(leftF, rightF)), Q(1, 1000))
    THEN [pc |-> "noTrans", args |-> a,
          saved |-> [sys |-> p.left.sys, dens |-> p.dens, spec |-> "noTrans"]]
    ELSE IF Lt(leftF, rightF)
    THEN [pc |-> "call",
          args |-> [a EXCEPT !.densRange = <<p.dens, a.densRange[2]>>,
                             !.initLeft = [sys |-> p.left.sys]],
          saved |-> [sys |-> p.left.sys, dens |-> p.dens, spec |-> "left"]]
    ELSE [pc |-> "call",
          args |-> [a EXCEPT !.densRange = <<a.densRange[1], p.dens>>,
                             !.initRight = [sys |-> p.right.sys]],
          saved |-> [sys |-> p.right.sys, dens |-> p.dens, spec |-> "right"]]

----------------------------------------------------------------------------
(* The profile as an object.  self._r is a Python list of arrays, and       *)
(* _append_hist stores the list itself in _r_hist, no copy of it.  Here a   *)
(* heap is the sequence of the lists allocated so far, each with the        *)
(* content of its arrays; a system holds references in r and in r_hist.     *)

\* the reference to the k-th object of a heap
Ref(k) == <<"ref", k>>

\* the system s with the content of the objects in the place of its references
Deref(h, s) ==
    [s EXCEPT !.r = IF @ = None THEN None ELSE h[@[2]],
              !.r_hist = Arr([j \in DOMAIN @ |-> h[@[j][2]]])]

\* the indices of the objects that the system s refers to
Refs(s) ==
    {s.r_hist[j][2] : j \in DOMAIN s.r_hist} \cup
    (IF s.r = None THEN {} ELSE {s.r[2]})

\* LdftModel._make_picard_update: the list comprehension builds a new list
\* of new arrays, and self._r=r binds the attribute to it
make_picard_update_inplace(h, s, alpha) ==
    Only({IF u.ret # "ok"
          THEN [sys |-> [u.sys EXCEPT !.r = s.r, !.r_hist = s.r_hist],
                ret |-> u.ret, r |-> None, error |-> None, heap |-> h]
          ELSE [sys |-> [u.sys EXCEPT !.r = s.r, !.r_hist = s.r_hist],
                ret |-> "ok", r |-> s.r, error |-> u.error,
                heap |-> [h EXCEPT ![s.r[2]] = u.r]] :
          u \in {make_picard_update(Deref(h, s), alpha,
                                    LdftModel_cal_mu_ex(Deref(h, s)))}})
make_picard_update_obj(h, s, alpha) ==
    Only({IF u.ret # "ok"
          THEN [sys |-> [u.sys EXCEPT !.r = s.r, !.r_hist = s.r_hist],
                ret |-> u.ret, r |-> None, error |-> None, heap |-> h]
          ELSE [sys |-> [u.sys EXCEPT !.r = Ref(Len(h) + 1), !.r_hist = s.r_hist],
                ret |-> "ok", r |-> Ref(Len(h) + 1), error |-> u.error,
                heap |-> Append(h, u.r)] :
          u \in {make_picard_update(Deref(h, s), alpha,
                                    LdftModel_cal_mu_ex(Deref(h, s)))}})

\* the loop of make_picard_iteration on objects: n passes, each as in
\* picard_pass with the update on objects
RECURSIVE picard_passes_obj(_, _, _, _, _)
picard_passes_obj(L, n, alpha, checkp_method, min_err) ==
    IF n = 0 \/ L.status # "running" THEN L
    ELSE IF L.sys.r = None THEN [L EXCEPT !.status = "TypeError"]
    ELSE Only({picard_passes_obj(
                   picard_update_done(L, u, checkp_method, min_err) @@ [heap |-> u.heap],
                   n - 1, alpha, checkp_method, min_err) :
               u \in {make_picard_update_obj(L.heap, L.sys, alpha)}})

\* LdftModel.make_picard_iteration on objects: as make_picard_iteration, with
\* the heap it leaves
make_picard_iteration_obj(h, s, alpha, it_steps, checkp_method, min_err) ==
    LET first == set_new_checkp(s, checkp_method)
    IN  IF ~first.ok
        THEN [sys |-> s, checkp |-> None, status |-> first.err, heap |-> h]
        ELSE Only({IF L.status \in {"running", "break"}
                   THEN picard_exit(L) @@ [heap |-> L.heap] ELSE L :
                   L \in {picard_passes_obj([sys |-> s, checkp |-> first.checkp,
                                              status |-> "running", heap |-> h],
                                             it_steps, alpha, checkp_method,
                                             min_err)}})

\* create_sys on objects, for init a valid name or a system: the profile of a
\* name is a new list that set_r binds; of a system the list init.r is handed
\* to the constructor, which drops it
create_sys_obj_shared(h, size, epsi, dens, init) ==
    IF "sys" \in DOMAIN init /\ init.sys.r # None
    THEN [heap |-> h,
          sys |-> set_r(LG3dMf_init(size, epsi, FALSE, None, dens, None, "periodic",
                                    None, None, None, None), init.sys.r)]
    ELSE Only({IF c.sys.r = None THEN [heap |-> h, sys |-> c.sys]
               ELSE [heap |-> Append(h, c.sys.r),
                     sys |-> set_r(c.sys, Ref(Len(h) + 1))] :
               c \in {create_sys(size, epsi, dens, init)}})
create_sys_obj(h, size, epsi, dens, init) ==
    Only({IF c.sys.r = None THEN [heap |-> h, sys |-> c.sys]
          ELSE [heap |-> Append(h, c.sys.r), sys |-> set_r(c.sys, Ref(Len(h) + 1))] :
          c \in {create_sys(size, epsi, dens, init)}})

\* the probes of a round of search_trans on objects: left is created and
\* iterated, then right; a picard run that raises ends the round.  Kept are
\* the heaps after the creation of each probe (lc, rc) and after its run.
search_probes_obj(h, a) ==
    LET dens == mid_dens(a.densRange)
        lc == create_sys_obj(h, a.size, a.epsi, dens, a.initLeft)
        left == make_picard_iteration_obj(lc.heap, lc.sys, a.alpha, a.it_step,
                                          a.chp, <<-20>>)
        rc == create_sys_obj(left.heap, a.size, a.epsi, dens, a.initRight)
        right == make_picard_iteration_obj(rc.heap, rc.sys, a.alpha, a.it_step,
                                           a.chp, <<-20>>)
    IN  IF probe_raised(left)
        THEN [status |-> "raised", dens |-> dens, lc |-> lc, left |-> left,
              rc |-> None, right |-> None, heap |-> left.heap]
        ELSE [status |-> IF probe_raised(right) THEN "raised" ELSE "probed",
              dens |-> dens, lc |-> lc, left |-> left, rc |-> rc,
              right |-> right, heap |-> right.heap]

----------------------------------------------------------------------------
(* State *)

VARIABLES
    sys,    \* the system the engine works on (an LG3dMf instance)
    call,   \* the last operation on sys; of a make_picard_iteration also its
            \* arguments, the system before it (pre), the checkpoint pending at
            \* its end (checkp) and how it ended (status)
    st,     \* search_trans: where the search is (pc), the arguments of the call
            \* that is pending or ended it (args), the files saved so far, and
            \* the probes and free energies of the last round
    rl,     \* the boundary roll: a field, its roll and the roll back
    heap    \* the profile objects (the lists self._r of arrays) allocated so
            \* far, where the model tells objects from their content

vars == <<sys, call, st, rl, heap>>

Idle == [op |-> "none"]

----------------------------------------------------------------------------
(* The iteration engine on one system *)

MaxIt == 2          \* updates since the last re-seeding
MaxSteps == 2       \* it_steps of one call

EngineSize == <<1, 1, 2>>

Half == Q(1, 2)
Quarter == Q(1, 4)

\* density profiles of one species on the two sites
Profiles == {<<Quarter, Quarter>>, <<Q(3, 2), Half>>}

\* (mu_fix, mu, dens, bound_cond) as handed to the constructor: a canonical and
\* a grand-canonical species, a species given both mu and dens, and a species
\* given neither under a two-axis boundary condition
Configs ==
    {<<FALSE, None, Half, "periodic">>, <<TRUE, Half, None, "periodic">>,
     <<TRUE, Half, Half, "periodic">>, <<FALSE, None, None, "11_if">>}

\* histories of an earlier run: (r_hist, it_hist, err_hist)
Histories ==
    {<< << <<(<<Quarter, Q(3, 4)>>)>>, <<(<<Half, Half>>)>>, <<(<<Half, Half>>)>> >>,
        <<0, 1, 3>>, <<(<<Q(1, 8)>>), (<<Zero>>), (<<Zero>>)>> >>}

Alphas == {Half, Q(3, 2)}
MinErrs == {None, <<-20>>}
CheckpMethods == {[int |-> 1], [str |-> <<"d", "e", "c", "2">>]}

EngineIdleRest == st = Idle /\ rl = Idle /\ heap = <<>>

\* the constructor call; call keeps its r and r_hist parameters
EngineInit ==
    /\ \E c \in Configs, r \in Profiles \cup {None}, h \in Histories \cup {None} :
         /\ sys = LG3dMf_init(EngineSize, 0, c[1], c[2], c[3], None, c[4], r,
                              IF h = None THEN None ELSE h[1],
                              IF h = None THEN None ELSE h[3],
                              IF h = None THEN None ELSE h[2])
         /\ call = [op |-> "init", r |-> r, r_hist |-> IF h = None THEN None ELSE h[1]]
    /\ EngineIdleRest

\* how far a system has come: its counter and the lengths of its histories
HistoryLengths(s) == <<s.it_counter, Len(s.it_hist), Len(s.err_hist)>>

SetR ==
    /\ \E r \in Profiles :
        /\ sys' = set_r(sys, <<r>>)
        /\ call' = [op |-> "set_r", before |-> HistoryLengths(sys)]
    /\ UNCHANGED <<st, rl, heap>>

CreateInitProfile ==
    /\ \E dens \in {Half}, shape \in {<<0, 0, 0>>, <<1, 1, 1>>} :
        /\ sys' = create_init_profile(sys, <<dens>>, <<shape>>)
        /\ call' = [op |-> "create_init_profile", before |-> HistoryLengths(sys)]
    /\ UNCHANGED <<st, rl, heap>>

SetHist ==
    /\ \E h \in Histories :
        /\ sys' = set_hist(sys, h[1], h[2], h[3])
        /\ call' = [op |-> "set_hist"]
    /\ UNCHANGED <<st, rl, heap>>

MakePicardIteration ==
    /\ \E alpha \in Alphas, it_steps \in 0..MaxSteps, chp \in CheckpMethods,
          min_err \in MinErrs :
        /\ sys.it_counter + it_steps <= MaxIt
        /\ \E run \in {make_picard_iteration(sys, alpha, it_steps, chp, min_err)} :
               /\ sys' = run.sys
               /\ call' = [op |-> "make_picard_iteration", pre |-> sys,
                           alpha |-> alpha, it_steps |-> it_steps,
                           checkp_method |-> chp, min_err |-> min_err,
                           checkp |-> run.checkp, status |-> run.status]
    /\ UNCHANGED <<st, rl, heap>>

\* generator.create_sys(LG3dMf, size, epsi, dens, init) with the system at hand
\* as init, seeded and not yet updated: a new system of density dens.  The
\* profile handed over is the list init.r, which the constructor of LG3dMf
\* drops: the new system has no profile until it is seeded.
CreateSys ==
    /\ sys.r # None
    /\ sys.it_counter = 0
    /\ \E dens \in {Quarter} :
        /\ sys' = create_sys(sys.size, sys.epsi, dens, [sys |-> sys]).sys
        /\ call' = [op |-> "create_sys"]
    /\ UNCHANGED <<st, rl, heap>>

Next == SetR \/ CreateInitProfile \/ SetHist \/ CreateSys \/ MakePicardIteration

Spec == EngineInit /\ [][Next]_vars

Iterated == call.op = "make_picard_iteration"
Returned == Iterated /\ call.status = "returned"

StrictlyIncreasing(seq) ==
    \A j \in 1..(Len(seq) - 1) : seq[j] < seq[j + 1]

\* C1: after every make_picard_iteration that returns, whatever came before it,
\* the last entry of it_hist is it_counter and it_hist is strictly increasing.
HistoryEndsAtCounter ==
    Returned => /\ Last(sys.it_hist) = sys.it_counter
                /\ StrictlyIncreasing(sys.it_hist)

\* cal_mu_ex returns a NaN on the first update of the call
FirstUpdateNaN ==
    /\ Iterated
    /\ call.it_steps >= 1
    /\ set_new_checkp(call.pre, call.checkp_method).ok
    /\ call.pre.r # None
    /\ \E i \in DOMAIN call.pre.mu_fix : ArrAnyNaN(cal_mu_ex(call.pre)[i])

\* C2: when cal_mu_ex returns a NaN on the first update of a call, the call
\* fails with a divergence error and leaves _r as it was before the call.
NaNRaisesDivergence ==
    FirstUpdateNaN => call.status = "DivergenceError" /\ sys.r = call.pre.r

\* exactly one update of a canonical one-species system, of alpha in (0,1)
OneCanonicalUpdate ==
    /\ Returned
    /\ call.it_steps = 1
    /\ ~call.pre.mu_fix[1]
    /\ Lt(Zero, call.alpha) /\ Lt(call.alpha, One)

\* C4 as stated: after one update of a canonical species the mean of its
\* profile is its configured density, whatever the profile was before.
MeanIsDensAfterUpdate ==
    OneCanonicalUpdate => np_mean(sys.r[1]) = sys.dens[1]

\* C4: after one update of a canonical species the mean of its profile is
\* alpha * dens + (1 - alpha) * (the mean before the update); it is the
\* configured density when the profile before had that mean.
MeanRelaxesToDens ==
    OneCanonicalUpdate =>
        /\ np_mean(sys.r[1]) =
               Add(Mul(call.alpha, sys.dens[1]),
                   Mul(Sub(One, call.alpha), np_mean(call.pre.r[1])))
        /\ np_mean(call.pre.r[1]) = sys.dens[1] => np_mean(sys.r[1]) = sys.dens[1]

\* one update from a profile whose mean is not the density of the system
MeanRelaxesToDensWitness ==
    /\ OneCanonicalUpdate
    /\ np_mean(call.pre.r[1]) # call.pre.dens[1]
    /\ np_mean(sys.r[1]) # sys.dens[1]
    /\ call.pre.r[1][1] # call.pre.r[1][2]

\* C13: re-seeding (set_r, the r setter, create_init_profile), from any prior
\* state, sets it_counter to 0, it_hist to [0], r_hist to the single new
\* profile and empties err_hist.
ReseedResets ==
    call.op \in {"set_r", "create_init_profile"} =>
        /\ sys.it_counter = 0
        /\ sys.it_hist = <<0>>
        /\ sys.r_hist = <<sys.r>>
        /\ sys.err_hist = <<>>

\* a system re-seeded after it had iterated and recorded a history
ReseedResetsWitness ==
    /\ call.op = "set_r"
    /\ call.before[1] = 2 /\ call.before[2] >= 3 /\ call.before[3] >= 2
    /\ sys.r_hist = <<sys.r>> /\ sys.it_counter = 0

\* a configuration as the constructor documents it: as many axes as the
\* boundary condition has, and each species with one of mu and dens
WellFormed(s) ==
    /\ s.bound_cond = "11_if" => Len(s.size) = 2
    /\ s.bound_cond \in {"110_if", "111_if"} => Len(s.size) = 3
    /\ \A i \in DOMAIN s.mu_fix : (s.mu[i] = None) # (s.dens[i] = None)

\* C10: a malformed configuration is rejected: no system is constructed with
\* an axis count that does not match its boundary condition or with a species
\* given both or neither of mu and dens, and no iteration runs with an alpha
\* outside (0,1).
MalformedConfigRejected ==
    /\ call.op = "init" => WellFormed(sys)
    /\ Iterated /\ ~(Lt(Zero, call.alpha) /\ Lt(call.alpha, One))
           => call.status = "ConfigurationError"

\* C29: the constructor stores its r parameter (for an LG3dMf: the one-species
\* list of it) as the current profile whenever r is given; it takes the last
\* entry of r_hist only when r is None; with both None the profile is None.
ConstructorPrefersR ==
    call.op = "init" =>
        /\ call.r # None => sys.r = <<call.r>>
        /\ call.r = None /\ call.r_hist # None => sys.r = Last(call.r_hist)
        /\ call.r = None /\ call.r_hist = None => sys.r = None

----------------------------------------------------------------------------
(* The update on a system of two species whose functional is given by what *)
(* it returns                                                              *)

MaxUpd == 2         \* updates of one system

UpdSize == <<1, 2>>

\* what cal_mu_ex returns (by its exponential), for the two species: the
\* fixed point of a grand-canonical species, another field, a field with a
\* NaN, and the field exp(-inf) = 0
MuExs ==
    LET A == <<One, Half>>
        B == <<Half, Half>>
        C == <<NaN, One>>
        D == <<Zero, Zero>>
    IN  {<<A, A>>, <<B, A>>, <<A, C>>, <<C, A>>, <<A, D>>, <<B, B>>}

UpdMinErrs == {None, Q(1, 16), Q(1, 8)}

UpdInit ==
    /\ \E mu_fix \in {<<TRUE, TRUE>>, <<TRUE, FALSE>>, <<FALSE, TRUE>>, <<FALSE, FALSE>>},
          f1 \in MuExs, f2 \in MuExs :
         sys = LdftModel_init(UpdSize, 0, mu_fix,
                              [i \in 1..2 |-> IF mu_fix[i] THEN Half ELSE None],
                              [i \in 1..2 |-> IF mu_fix[i] THEN None ELSE Half],
                              None, <<(<<Half, Quarter>>), (<<Half, Quarter>>)>>,
                              None, None, None, "periodic")
               @@ [functional |-> <<f1, f2>>]
    /\ call = [op |-> "init"]
    /\ EngineIdleRest

\* r, error = self._make_picard_update(alpha), or its return of None
PicardUpdate ==
    /\ sys.it_counter < MaxUpd
    /\ \E alpha \in Alphas :
         \E u \in {make_picard_update(sys, alpha, LdftModel_cal_mu_ex(sys))} :
            /\ sys' = u.sys
            /\ call' = [op |-> "_make_picard_update", pre |-> sys, alpha |-> alpha,
                        mu_ex |-> LdftModel_cal_mu_ex(sys), ret |-> u.ret,
                        r |-> u.r, error |-> u.error]
    /\ UNCHANGED <<st, rl, heap>>

UpdIteration ==
    /\ \E it_steps \in 0..MaxUpd, min_err \in UpdMinErrs :
        /\ sys.it_counter + it_steps <= MaxUpd
        /\ \E run \in {make_picard_iteration(sys, Half, it_steps, [int |-> 1], min_err)} :
               /\ sys' = run.sys
               /\ call' = [op |-> "make_picard_iteration", pre |-> sys,
                           alpha |-> Half, it_steps |-> it_steps,
                           checkp_method |-> [int |-> 1], min_err |-> min_err,
                           checkp |-> run.checkp, status |-> run.status]
    /\ UNCHANGED <<st, rl, heap>>

\* F, semi_Om, Om = self.cal_F(), self.cal_semi_Om(), self.cal_Om(), of one
\* functional (the three calls agree on what cal_F returns)
CalPotentials ==
    /\ call.op # "potentials"
    /\ \E F \in cal_F(sys) :
         call' = [op |-> "potentials", F |-> F,
                  semi_Om |-> cal_semi_Om_of(sys, F), Om |-> cal_Om_of(sys, F)]
    /\ UNCHANGED <<sys, st, rl, heap>>

UpdNext == PicardUpdate \/ UpdIteration \/ CalPotentials

SpecUpd == UpdInit /\ [][UpdNext]_vars

Updated == call.op = "_make_picard_update"

\* np.exp(mu_ex[i] - v_ext[i]) of the update, site k
UpdTemp(i, k) == Div(call.mu_ex[i][k], call.pre.v_ext[i][k])

\* species i is grand-canonical and its profile before the update is the
\* fixed point exp(mu_ex_i - v_ext_i) * exp(mu[i]), site by site
AtFixedPoint(i) ==
    /\ call.pre.mu_fix[i]
    /\ \A k \in DOMAIN call.pre.r[i] :
          /\ ~IsNaN(call.pre.r[i][k])
          /\ call.pre.r[i][k] = Mul(UpdTemp(i, k), call.pre.mu[i])

\* C12: an update that finds a grand-canonical species at its fixed point
\* leaves the profile of that species as it was, for any alpha, and reports
\* the error 0 for it.
FixedPointStays ==
    (Updated /\ call.ret = "ok") =>
        \A i \in DOMAIN sys.mu_fix :
            AtFixedPoint(i) => sys.r[i] = call.pre.r[i] /\ call.error[i] = Zero

\* a fixed point kept by an update of alpha = 3/2 that moved the other species
FixedPointStaysWitness ==
    /\ Updated /\ call.ret = "ok" /\ call.alpha = Q(3, 2)
    /\ AtFixedPoint(1)
    /\ sys.r[1] = <<Half, Quarter>>
    /\ sys.r[2] # call.pre.r[2]

\* C17: an update that detects a NaN mutates nothing: mu, dens, r, it_counter
\* and the histories are as before the update.
NaNUpdateMutatesNothing ==
    (Updated /\ call.ret = "None") => sys = call.pre

\* C19: a successful update changes, per species, only the derived quantity
\* (dens[i] = mean(candidate_i) of a grand-canonical species, mu[i] =
\* log(dens[i]/mean(temp_i)) of a canonical one), adds one to it_counter, and
\* leaves mu_fix, v_ext and the histories alone.
UpdateFrame ==
    (Updated /\ call.ret = "ok") =>
        /\ \A i \in DOMAIN sys.mu_fix :
              LET n == Len(call.mu_ex[i])
                  mean_temp == Div(Add(UpdTemp(i, 1), UpdTemp(i, 2)), Q(n, 1))
              IN  IF sys.mu_fix[i]
                  THEN /\ sys.mu[i] = call.pre.mu[i]
                       /\ sys.dens[i] = Mul(mean_temp, call.pre.mu[i])
                  ELSE /\ sys.dens[i] = call.pre.dens[i]
                       /\ sys.mu[i] = np_log(Div(call.pre.dens[i], mean_temp))
        /\ sys.it_counter = call.pre.it_counter + 1
        /\ sys.mu_fix = call.pre.mu_fix /\ sys.v_ext = call.pre.v_ext
        /\ sys.r_hist = call.pre.r_hist /\ sys.it_hist = call.pre.it_hist
        /\ sys.err_hist = call.pre.err_hist
        /\ sys.size = call.pre.size /\ sys.bound_cond = call.pre.bound_cond

\* a second update of a system of a grand-canonical and a canonical species
UpdateFrameWitness ==
    /\ Updated /\ call.ret = "ok"
    /\ call.pre.it_counter = 1 /\ sys.it_counter = 2
    /\ sys.mu_fix = <<TRUE, FALSE>>
    /\ sys.dens[1] # call.pre.dens[1] /\ sys.mu[2] # call.pre.mu[2]
    /\ sys.r # call.pre.r

\* C15: cal_semi_Om is cal_F minus mu[i]*sum(r[i]) for exactly the species of
\* mu_fix true, in their order; it is cal_F when no species is
\* grand-canonical and cal_Om when all are.
SemiOmSubtractsGrandCanonical ==
    call.op = "potentials" =>
        LET minus(x, i) == IF sys.mu_fix[i] THEN <<x, sys.mu[i], np_sum(sys.r[i])>>
                           ELSE x
        IN  /\ call.semi_Om = minus(minus(call.F, 1), 2)
            /\ (\A i \in DOMAIN sys.mu_fix : ~sys.mu_fix[i]) => call.semi_Om = call.F
            /\ (\A i \in DOMAIN sys.mu_fix : sys.mu_fix[i]) => call.semi_Om = call.Om

\* the semi-grand potential of an iterated system of a grand-canonical and a
\* canonical species: neither the free energy nor the grand potential
SemiOmSubtractsGrandCanonicalWitness ==
    /\ call.op = "potentials"
    /\ sys.mu_fix = <<FALSE, TRUE>> /\ sys.it_counter > 0
    /\ sys.mu[1] # None
    /\ call.semi_Om = <<call.F, sys.mu[2], np_sum(sys.r[2])>>
    /\ call.semi_Om # call.F /\ call.semi_Om # call.Om

\* C18: a profile with a non-finite value does not survive a run: after a
\* make_picard_iteration that returns, the profile of the system and every
\* profile of r_hist are finite.
NonFiniteNeverSurvives ==
    Returned =>
        \A j \in DOMAIN sys.r_hist \cup {0} :
            LET r == IF j = 0 THEN sys.r ELSE sys.r_hist[j]
            IN  \A i \in DOMAIN r : \A k \in DOMAIN r[i] : IsFin(r[i][k])

\* the errors of the updates of the last call, in their order
NewErrors == SubSeq(sys.err_hist, Len(call.pre.err_hist) + 1, Len(sys.err_hist))

\* C20: a make_picard_iteration that returns has made at most it_steps
\* updates; with min_err None exactly it_steps; with min_err set it stopped
\* right after the first update whose errors were all strictly below min_err
\* (an update with one species at or above min_err did not stop it).
StopsAtMinErr ==
    Returned =>
        LET n == sys.it_counter - call.pre.it_counter
            below(j) == \A i \in DOMAIN NewErrors[j] :
                            Lt(NewErrors[j][i], call.min_err)
        IN  /\ n = Len(NewErrors) /\ n <= call.it_steps
            /\ call.min_err = None => n = call.it_steps
            /\ call.min_err # None =>
                  /\ \A j \in 1..(n - 1) : ~below(j)
                  /\ n < call.it_steps => below(n)

\* a run that went on after an update with one species' error equal to
\* min_err and the other's below it
StopsAtMinErrWitness ==
    /\ Returned /\ call.min_err = Q(1, 16) /\ call.it_steps = 2
    /\ Len(NewErrors) = 2
    /\ NewErrors[1][1] = Q(1, 16) /\ Lt(NewErrors[1][2], Q(1, 16))

----------------------------------------------------------------------------
(* Rolling a field there and back under each boundary condition *)

MaxRollSteps == 3   \* steps of a roll: -MaxRollSteps..MaxRollSteps

\* (size, bound_cond) of a model: any extents under 'periodic'; under the
\* tilted boundary conditions one axis is twice each of the others
RollModels ==
    {<<sz, "periodic">> : sz \in {<<2, 3>>, <<3, 2>>, <<1, 2, 2>>, <<2, 1, 3>>}}
    \cup {<<sz, "11_if">> : sz \in {<<2, 1>>, <<1, 2>>, <<4, 2>>, <<2, 4>>}}
    \cup {<<sz, bc>> : sz \in {<<2, 1, 1>>, <<1, 2, 1>>, <<1, 1, 2>>, <<4, 2, 2>>,
                                <<2, 4, 2>>},
                       bc \in {"110_if", "111_if"}}

\* fields on a lattice: every site its own value, and one marked site
RollFields(size) ==
    {[p \in 1..Volume(size) |-> p], [p \in 1..Volume(size) |-> IF p = 1 THEN 1 ELSE 0]}

RollInit ==
    /\ \E m \in RollModels : \E f \in RollFields(m[1]) :
            rl = [op |-> "field", size |-> m[1], bound_cond |-> m[2], field |-> f]
    /\ sys = Idle /\ call = Idle /\ st = Idle /\ heap = <<>>

\* there == self._boundary_roll(field, steps, axis)
BoundaryRoll ==
    /\ rl.op = "field"
    /\ \E steps \in -MaxRollSteps..MaxRollSteps, axis \in 0..(Len(rl.size) - 1) :
            rl' = [op |-> "rolled", size |-> rl.size, bound_cond |-> rl.bound_cond,
                   field |-> rl.field, steps |-> steps, axis |-> axis,
                   there |-> boundary_roll(rl.size, rl.bound_cond, rl.field, steps, axis)]
    /\ UNCHANGED <<sys, call, st, heap>>

\* back == self._boundary_roll(there, -steps, axis)
BoundaryRollBack ==
    /\ rl.op = "rolled"
    /\ rl' = [op |-> "back", size |-> rl.size, bound_cond |-> rl.bound_cond,
              field |-> rl.field, steps |-> rl.steps, axis |-> rl.axis,
              there |-> rl.there,
              back |-> boundary_roll(rl.size, rl.bound_cond, rl.there, -rl.steps,
                                     rl.axis)]
    /\ UNCHANGED <<sys, call, st, heap>>

RollNext == BoundaryRoll \/ BoundaryRollBack

SpecRoll == RollInit /\ [][RollNext]_vars

\* C7: under every boundary condition, along every axis and for every number of
\* steps, rolling a field and rolling the result back by the opposite number of
\* steps gives the field again, site by site.
RollRoundTrip == rl.op = "back" => rl.back = rl.field

\* a round trip through the sheared boundary that moved the field
RollRoundTripWitness ==
    /\ rl.op = "back"
    /\ rl.bound_cond = "111_if"
    /\ rl.size = <<4, 2, 2>>
    /\ rl.axis = 1
    /\ rl.steps = -3
    /\ rl.there # rl.field
    /\ rl.there # np_roll(rl.size, rl.field, rl.steps, rl.axis)

\* C25: site by site, _boundary_roll is the cyclic roll along the given axis
\* of a field whose wrapping slice ([N-steps:N] for steps > 0, [0:-steps] for
\* steps < 0) was first rolled by floor(maxExtent/2) along the largest axis:
\* under '11_if' and '111_if' along every axis but the largest, under '110_if'
\* along the one axis that is neither the largest nor the one after it; all
\* other rolls, and every roll under 'periodic', are plain cyclic rolls.
RollAsDescribed ==
    rl.op = "rolled" =>
        LET sh == Shape3(rl.size)
            off == 3 - Len(rl.size)
            big == IndexOfMax(rl.size)
            N == rl.size[rl.axis + 1]
            M == MaxOf(rl.size)
            plain == \/ rl.bound_cond = "periodic"
                     \/ rl.axis = big
                     \/ rl.bound_cond = "110_if" /\ rl.axis = (big + 1) % 3
            wraps(k) == IF rl.steps > 0 THEN k >= N - rl.steps ELSE k < -rl.steps
            from(idx) ==
                LET k == (idx[rl.axis + off + 1] - rl.steps) % N
                    j == idx[big + off + 1]
                IN  [a \in 1..3 |->
                        IF a = rl.axis + off + 1 THEN k
                        ELSE IF a = big + off + 1 /\ ~plain /\ wraps(k)
                        THEN (j - M \div 2) % M
                        ELSE idx[a]]
        IN  /\ Len(rl.there) = Len(rl.field)
            /\ \A p \in DOMAIN rl.field :
                   rl.there[p] = rl.field[Flat3(sh, from(Idx3(sh, p)))]

\* a roll under '110_if' along the tilted axis by more steps than the axis is
\* long (the whole field wraps), and one along the axis after the largest
RollAsDescribedWitness ==
    /\ rl.op = "rolled" /\ rl.bound_cond = "110_if" /\ rl.size = <<4, 2, 2>>
    /\ \/ /\ rl.axis = 2 /\ rl.steps = -3
          /\ rl.there # np_roll(rl.size, rl.field, rl.steps, rl.axis)
       \/ /\ rl.axis = 1 /\ rl.steps = 1
          /\ rl.there = np_roll(rl.size, rl.field, rl.steps, rl.axis)
          /\ rl.there # rl.field

\* |steps| successive calls of _boundary_roll by one step in the direction dir
RECURSIVE unit_shifts(_, _, _, _, _, _)
unit_shifts(size, bound_cond, r, n, dir, axis) ==
    IF n = 0 THEN r
    ELSE unit_shifts(size, bound_cond, boundary_roll(size, bound_cond, r, dir, axis),
                     n - 1, dir, axis)

\* C26: _boundary_roll(field, steps, axis) is |steps| successive unit shifts
\* in the same direction along the axis, under every boundary condition and
\* for every number of steps, those beyond the length of the axis included.
RollIsUnitShifts ==
    rl.op = "rolled" =>
        rl.there = unit_shifts(rl.size, rl.bound_cond, rl.field, Abs(rl.steps),
                               Sgn(rl.steps), rl.axis)

----------------------------------------------------------------------------
(* Profiles with a nucleus *)

\* (size, bound_cond) of the models: under the tilted boundary conditions
\* the last axis is twice the others
NucModels ==
    {<<(<<2, 3>>), "periodic">>, <<(<<2, 2, 3>>), "periodic">>, <<(<<2, 4>>), "11_if">>,
     <<(<<2, 2, 4>>), "110_if">>, <<(<<2, 2, 4>>), "111_if">>}

\* the extents of a nucleus in a system of the given size: 0 to the extent of
\* the system, along each axis
NucShapes(size) == {shape \in [DOMAIN size -> 0..MaxOf(size)] :
                        \A a \in DOMAIN size : shape[a] <= size[a]}

NucInit ==
    /\ \E m \in NucModels, dens \in {Quarter, Half, Q(3, 4)} :
         \E shape \in NucShapes(m[1]) :
            rl = [op |-> "model", size |-> m[1], bound_cond |-> m[2], dens |-> dens,
                  shape |-> Arr(shape)]
    /\ sys = Idle /\ call = Idle /\ st = Idle /\ heap = <<>>

\* profile = self.return_nuc_densProfile(dens, shape)
ReturnNucDensProfile ==
    /\ rl.op = "model"
    /\ \E s \in {LdftModel_init(rl.size, 0, <<FALSE>>, None, <<rl.dens>>, None, None,
                                None, None, None, rl.bound_cond)} :
         rl' = [op |-> "profile", size |-> rl.size, bound_cond |-> rl.bound_cond,
                dens |-> rl.dens, shape |-> rl.shape,
                profile |-> return_nuc_densProfile(s, rl.dens, rl.shape)]
    /\ UNCHANGED <<sys, call, st, heap>>

SpecNuc == NucInit /\ [][ReturnNucDensProfile]_vars

\* C27: return_nuc_densProfile(dens, shape) returns a profile of the size of
\* the system whose mean is dens, under every boundary condition and for
\* every extent of the nucleus; with an all-zero extent every site is at dens;
\* otherwise the nucleus takes prod(shape) sites, shape[a] along each axis a
\* (as a box where nothing is sheared), at one value, and the other sites are
\* at another.
NucProfileMean ==
    rl.op = "profile" =>
        LET V == Volume(rl.size)
            n == Prod(rl.shape, Len(rl.shape))
            nuc_dens == IF Lt(rl.dens, Half) THEN Add(rl.dens, Q(1, 20))
                        ELSE Sub(rl.dens, Q(1, 20))
            mean == Div(Add(Mul(Q(n, 1), nuc_dens), Mul(Q(V - n, 1), rl.dens)), Q(V, 1))
            inside == {p \in DOMAIN rl.profile :
                          rl.profile[p] = Div(Mul(nuc_dens, rl.dens), mean)}
            outside == {p \in DOMAIN rl.profile :
                           rl.profile[p] = Div(Mul(rl.dens, rl.dens), mean)}
            off == 3 - Len(rl.size)
        IN  /\ Len(rl.profile) = V
            /\ np_mean(rl.profile) = rl.dens
            /\ (\A a \in DOMAIN rl.shape : rl.shape[a] = 0) =>
                   \A p \in DOMAIN rl.profile : rl.profile[p] = rl.dens
            /\ Cardinality(inside) = n
            /\ n < V => Cardinality(outside) = V - n
            /\ rl.bound_cond = "periodic" /\ n > 0 =>
                   \A a \in DOMAIN rl.shape :
                       Cardinality({Idx3(Shape3(rl.size), p)[a + off] : p \in inside})
                           = rl.shape[a]

\* a nucleus of 2 x 1 x 2 sites that the shear of '111_if' has moved
NucProfileMeanWitness ==
    /\ rl.op = "profile" /\ rl.bound_cond = "111_if" /\ rl.dens = Quarter
    /\ rl.shape = <<2, 1, 2>>
    /\ Cardinality({p \in DOMAIN rl.profile : Lt(rl.dens, rl.profile[p])}) = 4
    /\ rl.profile #
           return_nuc_densProfile([size |-> rl.size, dim |-> 3, bound_cond |-> "periodic"],
                                  rl.dens, rl.shape)

----------------------------------------------------------------------------
(* Rolling array objects: what a call of _boundary_roll does to the arrays *)
(* that exist                                                              *)

MaxRollCalls == 2   \* calls of _boundary_roll in one run

\* (size, bound_cond) of the models whose arrays are followed
RollObjModels ==
    {<<(<<2, 3>>), "periodic">>, <<(<<2, 1, 3>>), "periodic">>, <<(<<4, 2>>), "11_if">>,
     <<(<<4, 2, 2>>), "110_if">>, <<(<<4, 2, 2>>), "111_if">>,
     <<(<<2, 4, 2>>), "111_if">>}

RollObjInit ==
    /\ \E m \in RollObjModels :
            rl = [op |-> "arrays", size |-> m[1], bound_cond |-> m[2],
                  heap |-> <<[shape |-> m[1],
                              data |-> [p \in 1..Volume(m[1]) |-> p]]>>,
                  pre |-> <<>>, calls |-> 0,
                  r |-> 0, steps |-> 0, axis |-> 0, ret |-> 0]
    /\ sys = Idle /\ call = Idle /\ st = Idle /\ heap = <<>>

\* ret = self._boundary_roll(r, steps, axis) on the field at hand: the first
\* one, then the result of the call before
BoundaryRollObj ==
    /\ rl.op = "arrays"
    /\ rl.calls < MaxRollCalls
    /\ \E r \in {IF rl.ret = 0 THEN 1 ELSE rl.ret},
          steps \in -MaxRollSteps..MaxRollSteps, axis \in 0..(Len(rl.size) - 1) :
         \E c \in {boundary_roll_obj(rl.heap, rl.size, rl.bound_cond, r, steps, axis)} :
            rl' = [rl EXCEPT !.heap = c.heap, !.pre = rl.heap, !.r = r,
                             !.calls = @ + 1,
                             !.steps = steps, !.axis = axis, !.ret = c.ref]
    /\ UNCHANGED <<sys, call, st, heap>>

RollObjNext == BoundaryRollObj

SpecRollObj == RollObjInit /\ [][RollObjNext]_vars

\* C11: _boundary_roll is pure: after a call, under every boundary condition,
\* axis and number of steps, on 2-d and 3-d arrays, every array that existed
\* before the call (the input among them) is as it was, and the result is
\* another array, of the shape of the input, that holds the rolled field.
BoundaryRollPure ==
    (rl.op = "arrays" /\ rl.ret # 0) =>
        /\ \A a \in DOMAIN rl.pre : rl.heap[a] = rl.pre[a]
        /\ rl.ret \notin DOMAIN rl.pre
        /\ rl.heap[rl.ret].shape = rl.pre[rl.r].shape
        /\ rl.heap[rl.ret].data =
               boundary_roll(rl.size, rl.bound_cond, rl.pre[rl.r].data, rl.steps, rl.axis)

\* a call through the slice assignment of the tilted roll, in 3-d, that moved
\* the field
BoundaryRollPureWitness ==
    /\ rl.op = "arrays" /\ rl.ret # 0
    /\ rl.bound_cond = "111_if" /\ rl.size = <<4, 2, 2>>
    /\ rl.axis = 1 /\ rl.steps = 1
    /\ rl.heap[rl.ret].data # rl.pre[rl.r].data
    /\ rl.heap[rl.ret].data # np_roll(rl.size, rl.pre[rl.r].data, rl.steps, rl.axis)

----------------------------------------------------------------------------
(* The checkpoint schedule of long runs, on a system at its fixed point    *)

MaxCheckpIt == 40   \* updates of one system

CheckpSteps == {0, 10, 20, 26}
CheckpPolicies ==
    {[int |-> 4], [int |-> 5], [str |-> <<"d", "e", "c", "2">>],
     [str |-> <<"1", "0", "0", "0", "0">>], [str |-> <<"e", "x", "p", "2">>],
     [str |-> <<"e", "x", "p", "0", ".", "5">>]}

HomProfile == <<Half, Half>>

\* call.seeded records how the system came about: seeded by set_r (through
\* create_init_profile), or constructed on the histories of an earlier run
CheckpInit ==
    /\ \/ /\ sys = create_sys(EngineSize, 0, Half, [str |-> "hom"]).sys
          /\ call = [op |-> "init", seeded |-> TRUE]
       \/ /\ sys = LG3dMf_init(EngineSize, 0, FALSE, None, Half, None, "periodic",
                               None, <<(<<HomProfile>>), (<<HomProfile>>)>>,
                               <<(<<Zero>>)>>, <<0, 10>>)
          /\ call = [op |-> "init", seeded |-> FALSE]
    /\ EngineIdleRest

CheckpIteration ==
    /\ \E it_steps \in CheckpSteps, chp \in CheckpPolicies :
        /\ sys.it_counter + it_steps <= MaxCheckpIt
        /\ \E run \in {make_picard_iteration(sys, Half, it_steps, chp, None)} :
               /\ sys' = run.sys
               /\ call' = [op |-> "make_picard_iteration", pre |-> sys,
                           alpha |-> Half, it_steps |-> it_steps,
                           checkp_method |-> chp, min_err |-> None,
                           checkp |-> run.checkp, status |-> run.status,
                           seeded |-> call.seeded]
    /\ UNCHANGED <<st, rl, heap>>

CheckpNext == CheckpIteration

SpecCheckp == CheckpInit /\ [][CheckpNext]_vars

\* the indices the last call appended to it_hist
NewIndices == SubSeq(sys.it_hist, Len(call.pre.it_hist) + 1, Len(sys.it_hist))

\* C5: under an integer policy k and from a history whose last index is h, a
\* call that returns has appended a snapshot at exactly the counts h+k, h+2k,
\* ... the counter reached in it (and, last, the terminal snapshot of the call
\* where the counter ended off a checkpoint).
CheckpEquidistant ==
    (Returned /\ "int" \in DOMAIN call.checkp_method) =>
        LET k == call.checkp_method.int
            h == Last(call.pre.it_hist)
            m == IF h + k > call.pre.it_counter /\ sys.it_counter >= h
                 THEN (sys.it_counter - h) \div k ELSE 0
            checkps == [j \in 1..m |-> h + j * k]
            terminal == IF sys.it_counter # Last(call.pre.it_hist \o checkps)
                        THEN <<sys.it_counter>> ELSE <<>>
        IN  NewIndices = checkps \o terminal

\* the run of the example: k = 5 from the history [0], through 25 and one more
CheckpEquidistantWitness ==
    /\ Returned
    /\ call.checkp_method = [int |-> 5]
    /\ call.pre.it_hist = <<0>>
    /\ sys.it_hist = <<0, 5, 10, 15, 20, 25, 26>>

\* the checkpoints the 'dec2' example names
Dec2Decades == {30, 60, 90, 100, 300, 600, 900, 1000}

\* C6: under 'dec2' and from a history whose last index is 10, the checkpoints
\* _set_new_checkp computes during the iteration are 30, 60, 90, 100, 300, 600,
\* 900, 1000, ...: every index a returning call appended at a checkpoint, and
\* the checkpoint pending when it returned, is one of these.
CheckpDec2Decades ==
    (/\ Returned
     /\ call.checkp_method = [str |-> <<"d", "e", "c", "2">>]
     /\ Last(call.pre.it_hist) = 10) =>
        /\ \A j \in DOMAIN NewIndices :
               \/ NewIndices[j] \in Dec2Decades
               \/ j = Len(NewIndices) /\ NewIndices[j] = sys.it_counter
        /\ call.checkp \in {Q(c, 1) : c \in Dec2Decades}

\* C14: _set_new_checkp yields a checkpoint for every documented descriptor
\* (an int, an integer given as a string the way the command line passes it,
\* 'exp#', 'dec#'): no iteration ends by an exception of _set_new_checkp.
CheckpDescriptorsWork ==
    Iterated => call.status \notin {"UnboundLocalError", "ValueError", "IndexError"}

\* the 'exp#' policy of a call, or None
ExpPolicy ==
    IF Iterated /\ "str" \in DOMAIN call.checkp_method
       /\ SubSeq(call.checkp_method.str, 1, 3) = <<"e", "x", "p">>
    THEN float(SubSeq(call.checkp_method.str, 4, Len(call.checkp_method.str)))
    ELSE None

\* C16: under 'exp#' with # > 0 the checkpoint _set_new_checkp returns is
\* strictly greater than the last history index: so is the checkpoint a call
\* of no steps computed from the history it found.
ExpCheckpAhead ==
    (Returned /\ ExpPolicy # None /\ call.it_steps = 0) =>
        Lt(Q(Last(call.pre.it_hist), 1), call.checkp)

----------------------------------------------------------------------------
(* The search for the transition: one step is one call of search_trans, up *)
(* to its recursive call                                                   *)

Dec2 == [str |-> <<"d", "e", "c", "2">>]

\* the searches: intervals within the densities of the lattice gas and
\* intervals that reach above the density 1, each to accuracies from 0.01 to
\* one that the interval meets from the start, with probes that iterate or not
Searches ==
    [densRange : {<<Q(1, 10), Q(9, 10)>>, <<Quarter, Q(3, 4)>>,
                  <<Quarter, Q(3, 2)>>, <<Q(3, 4), Q(3, 2)>>},
     acuracy : {Q(1, 100), Q(1, 5), Q(2, 5), One},
     it_step : {0, 1}]

SearchInit ==
    /\ \E a \in Searches :
        st = [pc |-> "call", rounds |-> 0, first |-> a.densRange, saved |-> <<>>,
              last |-> None,
              args |-> [size |-> EngineSize, epsi |-> 0, densRange |-> a.densRange,
                        alpha |-> Half, it_step |-> a.it_step, chp |-> Dec2,
                        acuracy |-> a.acuracy, initLeft |-> [str |-> "hom"],
                        initRight |-> [str |-> "sph"]]]
    /\ sys = Idle /\ call = Idle /\ rl = Idle /\ heap = <<>>

\* one call of search_trans
SearchTrans ==
    /\ st.pc = "call"
    /\ \E p \in {search_probes(st.args)} :
        \/ /\ p.status = "finish"
           /\ st' = [st EXCEPT !.pc = "finish"]
        \/ /\ p.status = "raised"
           /\ st' = [st EXCEPT !.pc = "raised", !.rounds = @ + 1,
                               !.last = [range |-> st.args.densRange, dens |-> p.dens,
                                         args |-> st.args,
                                         left |-> p.left, right |-> p.right,
                                         leftF |-> None, rightF |-> None]]
        \/ /\ p.status = "probed"
           /\ \E leftF \in cal_semi_Om(p.left.sys), rightF \in cal_semi_Om(p.right.sys) :
               /\ p.left.sys.r = p.right.sys.r => leftF = rightF
               /\ \E c \in {search_compare(st.args, p, leftF, rightF)} :
                   st' = [st EXCEPT !.pc = c.pc, !.rounds = @ + 1, !.args = c.args,
                                    !.saved = Append(@, c.saved),
                                    !.last = [range |-> st.args.densRange,
                                              dens |-> p.dens, args |-> st.args,
                                              left |-> p.left, right |-> p.right,
                                              leftF |-> leftF, rightF |-> rightF]]
    /\ UNCHANGED <<sys, call, rl, heap>>

SearchNext == SearchTrans

SpecSearch == SearchInit /\ [][SearchNext]_vars

\* a call of search_trans that is pending and does its work
SearchProgress == st.pc = "call" /\ st' # st

\* The search under the fairness of a sequential program: a pending call runs.
\* This is WF_vars(SearchNext) written out, for SearchNext is enabled exactly
\* when st.pc = "call" and each of its steps changes st (it ends the search or
\* counts a round).
SpecSearchFair ==
    SpecSearch /\ ([]<>(st.pc # "call") \/ []<><<SearchProgress>>_vars)

Width(densRange) == Sub(densRange[2], densRange[1])
Le(x, y) == Lt(x, y) \/ x = y

\* the number of halvings that bring the width w to acuracy or below
RECURSIVE RoundsNeeded(_, _)
RoundsNeeded(w, acuracy) ==
    IF Le(w, acuracy) THEN 0 ELSE 1 + RoundsNeeded(Div(w, Q(2, 1)), acuracy)

Tie(leftF, rightF) == Lt(abs(Sub(leftF, rightF)), Q(1, 1000))

\* what holds of the search at every moment: no more rounds than the halvings
\* needed (7 for (0.1, 0.9) and 0.01); a round that recursed has halved the
\* interval within the one before; the search finishes exactly on an interval
\* of width <= acuracy, after all the halvings; it ends earlier only on a tie
\* of the free energies or on the exception of a probe
SearchHalves ==
    /\ st.rounds <= RoundsNeeded(Width(st.first), st.args.acuracy)
    /\ st.first = <<Q(1, 10), Q(9, 10)>> /\ st.args.acuracy = Q(1, 100) => st.rounds <= 7
    /\ st.pc = "call" /\ st.rounds > 0 =>
          /\ Width(st.args.densRange) = Div(Width(st.last.range), Q(2, 1))
          /\ Le(st.last.range[1], st.args.densRange[1])
          /\ Le(st.args.densRange[2], st.last.range[2])
          /\ ~Tie(st.last.leftF, st.last.rightF)
    /\ st.pc = "call" /\ st.rounds = RoundsNeeded(Width(st.first), st.args.acuracy)
          => Le(Width(st.args.densRange), st.args.acuracy)
    /\ st.pc = "finish" =>
          /\ Le(Width(st.args.densRange), st.args.acuracy)
          /\ st.rounds = RoundsNeeded(Width(st.first), st.args.acuracy)
    /\ st.pc = "noTrans" =>
          /\ Tie(st.last.leftF, st.last.rightF)
          /\ st.args.densRange = st.last.range
    /\ st.pc = "raised" =>
          probe_raised(st.last.left) \/ probe_raised(st.last.right)

SavedSystems == {st.saved[j].sys : j \in DOMAIN st.saved}

\* C8: both systems probed in a round, the winner of the comparison and the
\* other, are saved before the search recurses or ends.
AllProbesSaved ==
    st.rounds > 0 /\ st.pc \in {"call", "noTrans", "finish"} =>
        /\ st.last.left.sys \in SavedSystems
        /\ st.last.right.sys \in SavedSystems

\* a probe of the last round ended by an exception
ProbeFailed ==
    /\ st.last # None
    /\ \/ st.last.left.status # "returned"
       \/ st.last.right # None /\ st.last.right.status # "returned"

Compared ==
    /\ st.rounds > 0
    /\ st.last.leftF # None
    /\ IsFin(st.last.leftF) /\ IsFin(st.last.rightF)

\* the free energies of the last round are closer than 10**(-3)
Closer ==
    /\ Lt(Sub(st.last.leftF, st.last.rightF), Q(1, 1000))
    /\ Lt(Sub(st.last.rightF, st.last.leftF), Q(1, 1000))

\* C23: after a round whose free energies differ by at least 10**(-3), the
\* search goes on, when the left one is lower, on [mid, high] with the left
\* system of the round as initLeft and initRight as it was, and otherwise on
\* [low, mid] with the right system as initRight and initLeft as it was.
LeftRightSeeds ==
    Compared /\ ~Closer =>
        /\ st.pc \in {"call", "finish"}
        /\ IF Lt(st.last.leftF, st.last.rightF)
           THEN /\ st.args.densRange = <<st.last.dens, st.last.args.densRange[2]>>
                /\ st.args.initLeft = [sys |-> st.last.left.sys]
                /\ st.args.initRight = st.last.args.initRight
                /\ Last(st.saved).sys = st.last.left.sys
           ELSE /\ st.args.densRange = <<st.last.args.densRange[1], st.last.dens>>
                /\ st.args.initRight = [sys |-> st.last.right.sys]
                /\ st.args.initLeft = st.last.args.initLeft
                /\ Last(st.saved).sys = st.last.right.sys

\* a first round that the left probe, iterated once, won by exactly 10**(-3)
LeftRightSeedsWitness ==
    /\ st.pc = "call"
    /\ st.rounds = 1
    /\ st.last.leftF = Zero /\ st.last.rightF = Q(1, 1000)
    /\ st.last.args.it_step = 1
    /\ st.last.left.sys.it_counter = 1
    /\ st.args.initLeft = [sys |-> st.last.left.sys]
    /\ st.args.initRight = [str |-> "sph"]
    /\ st.args.densRange = <<Q(7, 8), Q(3, 2)>>

\* C24: a round whose free energies differ by less than 10**(-3) saves its
\* left system as 'noTrans' and ends the search on the interval as it was,
\* whichever of the two is lower and however wide the interval is.
TieEndsSearch ==
    Compared /\ Closer =>
        /\ st.pc = "noTrans"
        /\ Last(st.saved) = [sys |-> st.last.left.sys, dens |-> st.last.dens,
                             spec |-> "noTrans"]
        /\ Len(st.saved) = st.rounds
        /\ st.args = st.last.args
        /\ ~ENABLED SearchTrans

\* a tie in which the left free energy is the lower one, on the interval
\* (0.1, 0.9) searched to 0.01
TieEndsSearchWitness ==
    /\ st.pc = "noTrans"
    /\ st.last.leftF = Zero /\ st.last.rightF = Q(1, 2000)
    /\ st.args.densRange = <<Q(1, 10), Q(9, 10)>>
    /\ st.args.acuracy = Q(1, 100)
    /\ Last(st.saved).spec = "noTrans"

\* the lower and the upper half of an interval
Halves(densRange) ==
    LET mid == Div(Add(densRange[1], densRange[2]), Q(2, 1))
    IN  {<<densRange[1], mid>>, <<mid, densRange[2]>>}

----------------------------------------------------------------------------
(* The engine and the probes of a round on profile objects                 *)

\* a system seeded by create_sys from a name
ObjInit ==
    /\ \E dens \in {Quarter, Half, Q(7, 8)}, str \in {"hom", "sph"} :
         \E c \in {create_sys_obj(<<>>, EngineSize, 0, dens, [str |-> str])} :
            sys = c.sys /\ heap = c.heap
    /\ call = [op |-> "init"]
    /\ st = Idle /\ rl = Idle

\* make_picard_iteration on the system; call keeps the system and the heap
\* before it
ObjIteration ==
    /\ \E alpha \in Alphas, it_steps \in 0..MaxSteps, chp \in {[int |-> 1], Dec2} :
        /\ sys.it_counter + it_steps <= MaxIt
        /\ \E run \in {make_picard_iteration_obj(heap, sys, alpha, it_steps, chp, None)} :
               /\ sys' = run.sys
               /\ heap' = run.heap
               /\ call' = [op |-> "make_picard_iteration", pre |-> sys, heap |-> heap,
                           alpha |-> alpha, it_steps |-> it_steps,
                           checkp_method |-> chp, status |-> run.status]
    /\ UNCHANGED <<st, rl>>

\* the probes of one round of search_trans, each seeded by a name or by the
\* system at hand; st keeps the arguments, the heap before the round and what
\* search_probes_obj returns
ObjProbes ==
    /\ st = Idle
    /\ \E initLeft \in {[str |-> "hom"], [str |-> "sph"], [sys |-> sys]},
          initRight \in {[str |-> "sph"], [sys |-> sys]},
          it_step \in 0..MaxSteps, densRange \in {<<Quarter, Q(3, 2)>>} :
         \E p \in {search_probes_obj(heap,
                        [size |-> EngineSize, epsi |-> 0, densRange |-> densRange,
                         alpha |-> Half, it_step |-> it_step, chp |-> Dec2,
                         initLeft |-> initLeft, initRight |-> initRight])} :
            /\ st' = [op |-> "probes", initLeft |-> initLeft, initRight |-> initRight,
                      it_step |-> it_step, before |-> heap, p |-> p]
            /\ heap' = p.heap
    /\ UNCHANGED <<sys, call, rl>>

SpecObj == ObjInit /\ [][ObjIteration \/ ObjProbes]_vars

\* the heap g holds every object of the heap h, with the content it has in h
Keeps(g, h) == Len(h) <= Len(g) /\ \A k \in DOMAIN h : g[k] = h[k]

\* C22: make_picard_iteration only appends to r_hist and it_hist, and leaves
\* the content of every profile object that existed before it; the snapshots
\* it leaves, old and new, have the content they would have were each one a
\* copy taken when it was appended.
SnapshotsKept ==
    call.op = "make_picard_iteration" =>
        /\ Len(call.pre.r_hist) <= Len(sys.r_hist)
        /\ SubSeq(sys.r_hist, 1, Len(call.pre.r_hist)) = call.pre.r_hist
        /\ SubSeq(sys.it_hist, 1, Len(call.pre.it_hist)) = call.pre.it_hist
        /\ Len(sys.r_hist) = Len(sys.it_hist)
        /\ Keeps(heap, call.heap)
        /\ Deref(heap, sys) =
               make_picard_iteration(Deref(call.heap, call.pre), call.alpha,
                                     call.it_steps, call.checkp_method, None).sys

\* a call of two updates with a checkpoint at each: the snapshot of the
\* first update was appended before the second update ran, and the three
\* snapshots differ
SnapshotsKeptWitness ==
    /\ call.op = "make_picard_iteration"
    /\ call.status = "returned"
    /\ call.it_steps = 2
    /\ call.checkp_method = [int |-> 1]
    /\ sys.it_hist = <<0, 1, 2>>
    /\ sys.r_hist = <<Ref(1), Ref(2), Ref(3)>>
    /\ heap[1] # heap[2] /\ heap[2] # heap[3] /\ heap[1] # heap[3]

====
